---- MODULE Spec2Model ----
(***************************************************************************)
(* dso::MinimalImage<T> (src/dso/util/MinimalImage.h): a 2D buffer with    *)
(* width, height and stride that either owns its backing array or wraps    *)
(* an array of the caller.                                                 *)
(*                                                                         *)
(* The heap is a function from addresses to arrays; 0 is nullptr.  The     *)
(* addresses of ExtStores hold arrays of the caller, the addresses of      *)
(* HeapStores are handed out by new T[] and taken back by delete[], so an  *)
(* address can be used again.  Element k of an array (C index k) is        *)
(* mem[k + 1].  MinimalImage objects live in numbered slots; a constructor *)
(* takes the lowest free slot and the destructor frees it.                 *)
(***************************************************************************)
EXTENDS Integers, Sequences, FiniteSets, TLC

\* ---- bounds of the model ----
NumBufs == 2        \* MinimalImage objects alive at a time
MaxW == 3           \* constructor widths 0..MaxW
MaxH == 2           \* constructor heights 0..MaxH
MaxStride == 4      \* constructor stride arguments -1..MaxStride
ExtCap == 12        \* elements of the caller's array
MaxCalls == 1       \* setConst and setPixel... calls per run
Den == 2            \* a float coordinate is a multiple of 1/Den
EnumLimit == 2      \* arrays up to this length take every indeterminate content

Values == {0, 1}                \* element values (T)
Bufs == 1..NumBufs
NULL == 0
ExtStores == {1}                \* addresses of the arrays of the caller
HeapStores == 2..(NumBufs + 1)  \* addresses new T[] can return
\* <<w, h, stride argument>> of the objects of the lifecycle runs, of the
\* fill and block runs, and of the ring runs (a ring needs 7 x 7 pixels).
LifeShapes == {<<1, 1, -1>>, <<1, 1, 2>>}
PixelShapes == {<<2, 2, -1>>, <<3, 2, 4>>, <<2, 3, 3>>, <<3, 2, 2>>}
CircShapes == {<<7, 7, -1>>, <<8, 7, 9>>, <<7, 8, 0>>}

VARIABLES
    bufs,       \* slot -> MinimalImage object, or NoObject
    stores,     \* the heap: address -> [alloc, mem]
    fault,      \* delete[] was called on an address that holds no array
    last,       \* the last call: [op, dst, src, args]
    events,     \* heap statements of the last call, in program order
    calls       \* setConst and setPixel... calls made so far

vars == <<bufs, stores, fault, last, events, calls>>

NoObject == [live |-> FALSE, w |-> 0, h |-> 0, stride |-> 0, data |-> NULL, ownData |-> FALSE]

Live(b) == bufs[b].live

\* The slot the next constructed object takes.
NextSlot == CHOOSE d \in Bufs : ~Live(d) /\ \A e \in Bufs : ~Live(e) => d <= e
CanConstruct == \E d \in Bufs : ~Live(d)

\* ---- the heap ----

\* Contents of a freshly allocated (uninitialized) array of n elements, and of
\* any read that is not backed by an array: any values at all.
Indeterminate(n) ==
    IF n <= EnumLimit
    THEN [1..n -> Values]
    ELSE {[k \in 1..n |-> (a + b * k) % 2] : a \in Values, b \in Values}

NoArray == [alloc |-> FALSE, mem |-> << >>]

\* Addresses new T[] may return.
FreeAddrs(S) == {p \in HeapStores : ~S[p].alloc}

NewArray(S, p, m) == [S EXCEPT ![p] = [alloc |-> TRUE, mem |-> m]]

DeleteArray(S, p) == [S EXCEPT ![p] = NoArray]

\* What memcpy reads from n elements at p.
MemcpySource(S, p, n) ==
    IF p \in DOMAIN S /\ S[p].alloc /\ Len(S[p].mem) >= n
    THEN {SubSeq(S[p].mem, 1, n)}
    ELSE Indeterminate(n)

\* ---- constructors, destructor ----

\* A slip: a stride argument of 0 is taken as given.
ResolveStrideNonNeg(w_, stride_) == IF stride_ >= 0 THEN stride_ ELSE w_

ResolveStride(w_, stride_) == IF stride_ > 0 THEN stride_ ELSE w_

Call(op, dst, src, args) == [op |-> op, dst |-> dst, src |-> src, args |-> args]

Image(w_, h_, stride_, data_, own_) ==
    [live |-> TRUE, w |-> w_, h |-> h_, stride |-> stride_, data |-> data_, ownData |-> own_]

\* A slip: the ownership flag is not looked at.
ReleasesAnyData(b) == b.data # NULL

\* if(ownData && data) delete[] data;
Releases(b) == b.ownData /\ b.data # NULL
ReleaseOwned(b, S) == IF Releases(b) THEN DeleteArray(S, b.data) ELSE S
ReleaseFault(b, S) == Releases(b) /\ ~S[b.data].alloc
ReleaseEvents(b) == IF Releases(b) THEN << <<"delete", b.data>> >> ELSE << >>

New(w_, h_, stride_) ==
    /\ CanConstruct
    /\ LET d == NextSlot
           st == ResolveStride(w_, stride_)
       IN \E p \in FreeAddrs(stores) : \E m \in Indeterminate(st * h_) :
            /\ bufs' = [bufs EXCEPT ![d] = Image(w_, h_, st, p, TRUE)]
            /\ stores' = NewArray(stores, p, m)
            /\ events' = << <<"new", p>> >>
            /\ last' = Call("New", d, 0, <<w_, h_, stride_>>)
    /\ UNCHANGED <<fault, calls>>

Wrap(w_, h_, data_, stride_) ==
    /\ CanConstruct
    /\ LET d == NextSlot
       IN /\ bufs' = [bufs EXCEPT ![d] = Image(w_, h_, ResolveStride(w_, stride_), data_, FALSE)]
          /\ last' = Call("Wrap", d, 0, <<w_, h_, stride_, data_>>)
    /\ events' = << >>
    /\ UNCHANGED <<stores, fault, calls>>

\* A slip: the copy of an owning object takes the pointer instead of a new array.
CopyCtorShallow(s) ==
    /\ CanConstruct
    /\ Live(s)
    /\ LET d == NextSlot
           other == bufs[s]
       IN /\ bufs' = [bufs EXCEPT ![d] =
                         Image(other.w, other.h, other.stride, other.data, other.ownData)]
          /\ last' = Call("CopyCtor", d, s, << >>)
    /\ events' = << >>
    /\ UNCHANGED <<stores, fault, calls>>

CopyCtor(s) ==
    /\ CanConstruct
    /\ Live(s)
    /\ LET d == NextSlot
           other == bufs[s]
       IN /\ IF other.ownData
             THEN \E p \in FreeAddrs(stores) :
                  \E m \in MemcpySource(stores, other.data, other.stride * other.h) :
                     /\ stores' = NewArray(stores, p, m)
                     /\ bufs' = [bufs EXCEPT ![d] = Image(other.w, other.h, other.stride, p, TRUE)]
                     /\ events' = << <<"new", p>> >>
             ELSE /\ bufs' = [bufs EXCEPT ![d] =
                                 Image(other.w, other.h, other.stride, other.data, FALSE)]
                  /\ events' = << >>
                  /\ UNCHANGED stores
          /\ last' = Call("CopyCtor", d, s, << >>)
    /\ UNCHANGED <<fault, calls>>

\* A slip: the moved-from object keeps its pointer and its flag.
MoveCtorKeepsSource(s) ==
    /\ CanConstruct
    /\ Live(s)
    /\ LET d == NextSlot
           other == bufs[s]
       IN /\ bufs' = [bufs EXCEPT
                        ![d] = Image(other.w, other.h, other.stride, other.data, other.ownData)]
          /\ last' = Call("MoveCtor", d, s, << >>)
    /\ events' = << >>
    /\ UNCHANGED <<stores, fault, calls>>

MoveCtor(s) ==
    /\ CanConstruct
    /\ Live(s)
    /\ LET d == NextSlot
           other == bufs[s]
       IN /\ bufs' = [bufs EXCEPT
                        ![d] = Image(other.w, other.h, other.stride, other.data, other.ownData),
                        ![s] = [@ EXCEPT !.data = NULL, !.ownData = FALSE]]
          /\ last' = Call("MoveCtor", d, s, << >>)
    /\ events' = << >>
    /\ UNCHANGED <<stores, fault, calls>>

Destroy(d) ==
    /\ Live(d)
    /\ stores' = ReleaseOwned(bufs[d], stores)
    /\ fault' = (fault \/ ReleaseFault(bufs[d], stores))
    /\ events' = ReleaseEvents(bufs[d])
    /\ bufs' = [bufs EXCEPT ![d] = NoObject]
    /\ last' = Call("Destroy", d, 0, <<bufs[d].data>>)
    /\ UNCHANGED calls

\* ---- assignment, clone ----

CopyAssign(d, s) ==
    /\ Live(d) /\ Live(s)
    /\ IF d # s
       THEN LET this == bufs[d]
                other == bufs[s]
                S1 == ReleaseOwned(this, stores)
            IN /\ fault' = (fault \/ ReleaseFault(this, stores))
               /\ IF other.ownData
                  THEN \E p \in FreeAddrs(S1) :
                       \E m \in MemcpySource(S1, other.data, other.stride * other.h) :
                          /\ stores' = NewArray(S1, p, m)
                          /\ bufs' = [bufs EXCEPT ![d] =
                                         Image(other.w, other.h, other.stride, p, TRUE)]
                          /\ events' = ReleaseEvents(this) \o << <<"adopt", s>>, <<"new", p>> >>
                  ELSE /\ stores' = S1
                       /\ bufs' = [bufs EXCEPT ![d] =
                                      Image(other.w, other.h, other.stride, other.data, FALSE)]
                       /\ events' = ReleaseEvents(this) \o << <<"adopt", s>> >>
       ELSE /\ UNCHANGED <<bufs, stores, fault>>
            /\ events' = << >>
    /\ last' = Call("CopyAssign", d, s, << >>)
    /\ UNCHANGED calls

\* A slip: no this != &other test.
MoveAssignNoSelfTest(d, s) ==
    /\ Live(d) /\ Live(s)
    /\ LET this == bufs[d]
           other == bufs[s]
           moved == [bufs EXCEPT
                       ![d] = Image(other.w, other.h, other.stride, other.data, other.ownData)]
       IN /\ stores' = ReleaseOwned(this, stores)
          /\ fault' = (fault \/ ReleaseFault(this, stores))
          /\ bufs' = [moved EXCEPT ![s] = [@ EXCEPT !.data = NULL, !.ownData = FALSE]]
          /\ events' = ReleaseEvents(this) \o << <<"adopt", s>> >>
    /\ last' = Call("MoveAssign", d, s, << >>)
    /\ UNCHANGED calls

\* A slip: the array the destination owned is not released.
MoveAssignLeaks(d, s) ==
    /\ Live(d) /\ Live(s)
    /\ IF d # s
       THEN LET other == bufs[s]
            IN /\ bufs' = [bufs EXCEPT
                             ![d] = Image(other.w, other.h, other.stride, other.data, other.ownData),
                             ![s] = [@ EXCEPT !.data = NULL, !.ownData = FALSE]]
               /\ events' = << <<"adopt", s>> >>
               /\ UNCHANGED <<stores, fault>>
       ELSE /\ UNCHANGED <<bufs, stores, fault>>
            /\ events' = << >>
    /\ last' = Call("MoveAssign", d, s, << >>)
    /\ UNCHANGED calls

MoveAssign(d, s) ==
    /\ Live(d) /\ Live(s)
    /\ IF d # s
       THEN LET this == bufs[d]
                other == bufs[s]
            IN /\ stores' = ReleaseOwned(this, stores)
               /\ fault' = (fault \/ ReleaseFault(this, stores))
               /\ bufs' = [bufs EXCEPT
                             ![d] = Image(other.w, other.h, other.stride, other.data, other.ownData),
                             ![s] = [@ EXCEPT !.data = NULL, !.ownData = FALSE]]
               /\ events' = ReleaseEvents(this) \o << <<"adopt", s>> >>
       ELSE /\ UNCHANGED <<bufs, stores, fault>>
            /\ events' = << >>
    /\ last' = Call("MoveAssign", d, s, << >>)
    /\ UNCHANGED calls

\* A slip: memcpy of w * h elements only.
GetCloneRowWidth(s) ==
    /\ CanConstruct
    /\ Live(s)
    /\ LET d == NextSlot
           this == bufs[s]
       IN \E p \in FreeAddrs(stores) :
          \E m \in MemcpySource(stores, this.data, this.w * this.h) :
          \E rest \in Indeterminate(this.stride * this.h - this.w * this.h) :
             /\ stores' = NewArray(stores, p, m \o rest)
             /\ bufs' = [bufs EXCEPT ![d] =
                            Image(this.w, this.h, ResolveStride(this.w, this.stride), p, TRUE)]
             /\ events' = << <<"new", p>> >>
             /\ last' = Call("GetClone", d, s, << >>)
    /\ UNCHANGED <<fault, calls>>

\* new MinimalImage(w, h, stride), then memcpy of stride * h elements.
GetClone(s) ==
    /\ CanConstruct
    /\ Live(s)
    /\ LET d == NextSlot
           this == bufs[s]
       IN \E p \in FreeAddrs(stores) :
          \E m \in MemcpySource(stores, this.data, this.stride * this.h) :
             /\ stores' = NewArray(stores, p, m)
             /\ bufs' = [bufs EXCEPT ![d] =
                            Image(this.w, this.h, ResolveStride(this.w, this.stride), p, TRUE)]
             /\ events' = << <<"new", p>> >>
             /\ last' = Call("GetClone", d, s, << >>)
    /\ UNCHANGED <<fault, calls>>

\* ---- pixel access ----

\* at(x, y) is data[x + y * stride]
At(b, x, y) == x + y * b.stride

\* The elements idxs of the array at p can be written: p holds an array that has them.
Writable(S, p, idxs) ==
    /\ p \in DOMAIN S
    /\ S[p].alloc
    /\ \A i \in idxs : 0 <= i /\ i < Len(S[p].mem)

\* data[i] = val for every i of idxs
Assign(S, p, idxs, val) ==
    [S EXCEPT ![p].mem = [k \in 1..Len(@) |-> IF (k - 1) \in idxs THEN val ELSE @[k]]]

\* at(i) = val
WriteAt(b, i, val) ==
    /\ Live(b)
    /\ Writable(stores, bufs[b].data, {i})
    /\ stores' = Assign(stores, bufs[b].data, {i}, val)
    /\ last' = Call("WriteAt", b, 0, <<i, val>>)
    /\ events' = << >>
    /\ UNCHANGED <<bufs, fault, calls>>

\* A slip: the columns run to the stride.
SetConstCellsToStride(b) == {At(b, x, y) : x \in 0..(b.stride - 1), y \in 0..(b.h - 1)}

SetConstCells(b) == {At(b, x, y) : x \in 0..(b.w - 1), y \in 0..(b.h - 1)}

SetConst(b, val) ==
    /\ Live(b)
    /\ calls < MaxCalls
    /\ Writable(stores, bufs[b].data, SetConstCells(bufs[b]))
    /\ stores' = Assign(stores, bufs[b].data, SetConstCells(bufs[b]), val)
    /\ last' = Call("SetConst", b, 0, <<val>>)
    /\ events' = << >>
    /\ calls' = calls + 1
    /\ UNCHANGED <<bufs, fault>>

\* A slip: the nearest integer, as setPixel1 takes it.
CastIntNearest(n) == (2 * n + Den) \div (2 * Den)

\* static_cast<int>(f) of the float n / Den: the fraction is dropped (towards zero).
CastInt(n) == IF n >= 0 THEN n \div Den ELSE -((-n) \div Den)

SetPixel4Cells(b, un, vn) ==
    LET iu == CastInt(un)
        iv == CastInt(vn)
    IN {At(b, iu + 1, iv + 1), At(b, iu + 1, iv), At(b, iu, iv + 1), At(b, iu, iv)}

SetPixel4(b, un, vn, val) ==
    /\ Live(b)
    /\ calls < MaxCalls
    /\ Writable(stores, bufs[b].data, SetPixel4Cells(bufs[b], un, vn))
    /\ stores' = Assign(stores, bufs[b].data, SetPixel4Cells(bufs[b], un, vn), val)
    /\ last' = Call("SetPixel4", b, 0, <<un, vn, val>>)
    /\ events' = << >>
    /\ calls' = calls + 1
    /\ UNCHANGED <<bufs, fault>>

SetPixelCircCells(b, u, v) ==
    UNION {{At(b, u + 3, v + i), At(b, u - 3, v + i), At(b, u + 2, v + i), At(b, u - 2, v + i),
            At(b, u + i, v - 3), At(b, u + i, v + 3), At(b, u + i, v - 2), At(b, u + i, v + 2)}
           : i \in -3..3}

SetPixelCirc(b, u, v, val) ==
    /\ Live(b)
    /\ calls < MaxCalls
    /\ Writable(stores, bufs[b].data, SetPixelCircCells(bufs[b], u, v))
    /\ stores' = Assign(stores, bufs[b].data, SetPixelCircCells(bufs[b], u, v), val)
    /\ last' = Call("SetPixelCirc", b, 0, <<u, v, val>>)
    /\ events' = << >>
    /\ calls' = calls + 1
    /\ UNCHANGED <<bufs, fault>>

\* ---- specifications ----

\* What the caller's array holds at the start: both values, in turn.
CallerArrays == {[k \in 1..ExtCap |-> k % 2]}

Init ==
    /\ bufs = [b \in Bufs |-> NoObject]
    /\ \E m \in CallerArrays :
          stores = [p \in ExtStores \cup HeapStores |->
                      IF p \in ExtStores THEN [alloc |-> TRUE, mem |-> m] ELSE NoArray]
    /\ fault = FALSE
    /\ last = Call("none", 0, 0, << >>)
    /\ events = << >>
    /\ calls = 0

\* The lifecycle: objects of LifeShapes are constructed, copied, moved, assigned,
\* cloned and destroyed in any order.
Next ==
    \/ \E sh \in LifeShapes : New(sh[1], sh[2], sh[3])
    \/ \E sh \in LifeShapes, p \in ExtStores : Wrap(sh[1], sh[2], p, sh[3])
    \/ \E s \in Bufs : CopyCtor(s)
    \/ \E s \in Bufs : MoveCtor(s)
    \/ \E d \in Bufs : Destroy(d)
    \/ \E d \in Bufs, s \in Bufs : CopyAssign(d, s)
    \/ \E d \in Bufs, s \in Bufs : MoveAssign(d, s)
    \/ \E s \in Bufs : GetClone(s)

Spec == Init /\ [][Next]_vars

\* Copies and their contents: objects of LifeShapes are constructed, copied,
\* copy-assigned, cloned, written element by element and destroyed in any order.
NextData ==
    \/ \E sh \in LifeShapes : New(sh[1], sh[2], sh[3])
    \/ \E sh \in LifeShapes, p \in ExtStores : Wrap(sh[1], sh[2], p, sh[3])
    \/ \E s \in Bufs : CopyCtor(s)
    \/ \E d \in Bufs : Destroy(d)
    \/ \E d \in Bufs, s \in Bufs : CopyAssign(d, s)
    \/ \E s \in Bufs : GetClone(s)
    \/ \E b \in Bufs, val \in Values :
          \E i \in 0..(bufs[b].stride * bufs[b].h - 1) : WriteAt(b, i, val)

SpecData == Init /\ [][NextData]_vars

NoneLive == \A b \in Bufs : ~Live(b)

\* The constructors on every argument (empty images included), one object at a time.
NextCtor ==
    \/ \E w_ \in 0..MaxW, h_ \in 0..MaxH, s_ \in -1..MaxStride :
          NoneLive /\ New(w_, h_, s_)
    \/ \E w_ \in 0..MaxW, h_ \in 0..MaxH, s_ \in -1..MaxStride, p \in ExtStores :
          NoneLive /\ Wrap(w_, h_, p, s_)
    \/ \E d \in Bufs : Destroy(d)

SpecCtor == Init /\ [][NextCtor]_vars

\* setConst and setPixel4 on one owning object and on one view of the caller's array.
Coords == (-Den)..(2 * Den)

NextPixel ==
    \/ \E sh \in PixelShapes : NoneLive /\ New(sh[1], sh[2], sh[3])
    \/ \E sh \in PixelShapes, p \in ExtStores : NoneLive /\ Wrap(sh[1], sh[2], p, sh[3])
    \/ \E b \in Bufs, val \in Values : SetConst(b, val)
    \/ \E b \in Bufs, un \in Coords, vn \in Coords, val \in Values : SetPixel4(b, un, vn, val)
    \/ \E d \in Bufs : Destroy(d)

SpecPixel == Init /\ [][NextPixel]_vars

\* setPixelCirc on one owning object.
NextCirc ==
    \/ \E sh \in CircShapes : NoneLive /\ New(sh[1], sh[2], sh[3])
    \/ \E b \in Bufs, u \in 0..8, v \in 0..8, val \in Values : SetPixelCirc(b, u, v, val)
    \/ \E d \in Bufs : Destroy(d)

SpecCirc == Init /\ [][NextCirc]_vars

\* ---- properties ----

Owning(b) == b.live /\ b.ownData /\ b.data # NULL
Borrowing(b) == b.live /\ ~b.ownData /\ b.data # NULL
Elems(b) == b.stride * b.h
IsCopy(c) == c.op \in {"CopyCtor", "CopyAssign"} /\ c.dst # c.src
IsMove(c) == c.op \in {"MoveCtor", "MoveAssign"} /\ c.dst # c.src
IsAssign(c) == c.op \in {"CopyAssign", "MoveAssign"}
OthersLive(S, d) == {e \in Bufs \ {d} : S[e].live}
Deleted(ev) == {ev[k][2] : k \in {j \in DOMAIN ev : ev[j][1] = "delete"}}
Allocated(ev) == {ev[k][2] : k \in {j \in DOMAIN ev : ev[j][1] = "new"}}

\* A write of one element through object b shows through exactly the objects
\* that hold b's pointer: they read the value written, every other array is as
\* it was.
WriteShows ==
    last'.op = "WriteAt" =>
        LET b == bufs[last'.dst]
            i == last'.args[1]
            val == last'.args[2]
        IN /\ bufs' = bufs
           /\ \A c \in Bufs :
                 /\ (Live(c) /\ bufs[c].data = b.data) => stores'[bufs[c].data].mem[i + 1] = val
                 /\ (Live(c) /\ bufs[c].data # NULL /\ bufs[c].data # b.data) =>
                       stores'[bufs[c].data] = stores[bufs[c].data]

\* The copy made by this step, when its source owns its array, owns an array of
\* its own: allocated by this step, held by no other object, with the source's
\* stride * h elements.
DeepCopyStep ==
    (IsCopy(last') /\ Owning(bufs[last'.src])) =>
        LET src == bufs[last'.src]
            dst == bufs'[last'.dst]
        IN /\ Owning(dst)
           /\ dst.data # src.data
           /\ dst.data \in Allocated(events')
           /\ \A e \in OthersLive(bufs', last'.dst) : bufs'[e].data # dst.data
           /\ stores'[dst.data].alloc
           /\ stores'[dst.data].mem = SubSeq(stores[src.data].mem, 1, Elems(src))
           /\ stores'[src.data] = stores[src.data]
           /\ bufs'[last'.src] = src

\* The copy made by this step, when its source borrows its array, borrows the
\* same array.
SharedCopyStep ==
    (IsCopy(last') /\ Borrowing(bufs[last'.src])) =>
        LET src == bufs[last'.src]
            dst == bufs'[last'.dst]
        IN /\ Borrowing(dst)
           /\ dst.data = src.data
           /\ Allocated(events') = {}
           /\ stores'[src.data] = stores[src.data]
           /\ bufs'[last'.src] = src

\* C1: a copy (constructor or assignment) of an owning object is an owning
\* object with a newly allocated array holding the same stride * h elements,
\* and a copy of a borrowing object is a borrowing object with the same
\* pointer; a later write through an object shows through the objects with
\* its pointer and through no other, so never between a deep copy and its
\* source and always between a shared copy and its source.
CopyIsDeepOrShared == [][DeepCopyStep /\ SharedCopyStep /\ WriteShows]_vars

\* An owning object with a padding column was just copy-assigned to an owning object.
CopyWitness ==
    /\ last.op = "CopyAssign"
    /\ last.dst # last.src
    /\ Owning(bufs[last.src]) /\ Owning(bufs[last.dst])
    /\ bufs[last.src].stride > bufs[last.src].w
    /\ stores[bufs[last.dst].data].mem = stores[bufs[last.src].data].mem

\* C2: after a move (constructor, or assignment between two objects) the
\* destination has the width, height, stride, pointer and ownership flag the
\* source had, and the source has a null pointer and a cleared flag, whether
\* the source owned or borrowed.
MoveTransfers ==
    [][IsMove(last') =>
        LET src == bufs[last'.src]
            dst == bufs'[last'.dst]
        IN /\ dst.live
           /\ dst.w = src.w /\ dst.h = src.h /\ dst.stride = src.stride
           /\ dst.data = src.data
           /\ dst.ownData = src.ownData
           /\ bufs'[last'.src].data = NULL
           /\ ~bufs'[last'.src].ownData
           /\ bufs'[last'.src].live]_vars

\* An owning object was just move-assigned to another owning object.
MoveWitness ==
    /\ last.op = "MoveAssign"
    /\ last.dst # last.src
    /\ Owning(bufs[last.dst])
    /\ bufs[last.src].data = NULL
    /\ Len(events) = 2
    /\ events[1][1] = "delete"

\* C3: getClone() of an owning or a borrowing object makes an owning object of
\* the same w, h and stride whose array is newly allocated, held by no other
\* object, and equal to the original's in all stride * h elements; a later
\* write through the clone or the original changes only the arrays of the
\* objects holding the written pointer, so never the other one.
CloneIsIndependent ==
    [][/\ (last'.op = "GetClone" /\ (Owning(bufs[last'.src]) \/ Borrowing(bufs[last'.src]))) =>
            LET src == bufs[last'.src]
                clone == bufs'[last'.dst]
            IN /\ Owning(clone)
               /\ clone.w = src.w /\ clone.h = src.h /\ clone.stride = src.stride
               /\ clone.data # src.data
               /\ clone.data \in Allocated(events')
               /\ \A e \in OthersLive(bufs', last'.dst) : bufs'[e].data # clone.data
               /\ Len(stores'[clone.data].mem) = Elems(src)
               /\ \A k \in 1..Elems(src) :
                     stores'[clone.data].mem[k] = stores[src.data].mem[k]
               /\ stores'[src.data] = stores[src.data]
               /\ bufs'[last'.src] = src
       /\ WriteShows]_vars

\* A borrowing object with a padding column was just cloned.
CloneWitness ==
    /\ last.op = "GetClone"
    /\ Borrowing(bufs[last.src])
    /\ bufs[last.src].stride > bufs[last.src].w
    /\ Owning(bufs[last.dst])

\* C4: the array the caller gave to the wrap constructor is never released,
\* by no call on the wrapping object, its copies or the objects it was moved
\* to: it is still there, with all its elements, and every delete[] is of an
\* array that new T[] made.
CallerArrayKept ==
    /\ \A p \in ExtStores : stores[p].alloc /\ Len(stores[p].mem) = ExtCap
    /\ Deleted(events) \subseteq HeapStores
    /\ ~fault

\* The last object holding the caller's array was just destroyed.
CallerArrayWitness ==
    /\ last.op = "Destroy"
    /\ last.args[1] \in ExtStores
    /\ NoneLive

\* C5: an assignment (copy or move) from another object first releases the
\* array the destination owned, if it owned one, and then adopts the source's
\* state; an assignment of an object to itself changes no object and no
\* array and releases nothing.
AssignReleasesThenAdopts ==
    [][IsAssign(last') =>
        LET d == last'.dst
            s == last'.src
            this == bufs[d]
            other == bufs[s]
        IN IF d # s
           THEN /\ IF Owning(this)
                   THEN /\ Len(events') >= 2
                        /\ events'[1] = <<"delete", this.data>>
                        /\ events'[2] = <<"adopt", s>>
                        /\ this.data \notin Allocated(events') => ~stores'[this.data].alloc
                   ELSE /\ Len(events') >= 1
                        /\ events'[1] = <<"adopt", s>>
                /\ Deleted(events') \subseteq {this.data}
                /\ bufs'[d].w = other.w /\ bufs'[d].h = other.h
                /\ bufs'[d].stride = other.stride
                /\ bufs'[d].ownData = other.ownData
                /\ (last'.op = "MoveAssign" \/ ~other.ownData) => bufs'[d].data = other.data
           ELSE /\ bufs' = bufs
                /\ stores' = stores
                /\ events' = << >>
                /\ fault' = fault]_vars

\* An owning object was just copy-assigned the state of another owning object.
AssignWitness ==
    /\ last.op = "CopyAssign"
    /\ last.dst # last.src
    /\ Len(events) = 3
    /\ events[1][1] = "delete"

\* An owning object was just assigned to itself.
SelfAssignWitness ==
    /\ IsAssign(last)
    /\ last.dst = last.src
    /\ Owning(bufs[last.dst])

\* C6: both constructors set stride to w when the stride argument is not
\* positive (the default -1 included) and to the argument when it is
\* positive; the owning constructor allocates exactly stride * h elements and
\* sets the ownership flag, the wrap constructor keeps the given pointer,
\* allocates nothing and clears the flag.
CtorStride ==
    /\ last.op \in {"New", "Wrap"} =>
          LET b == bufs[last.dst]
              w_ == last.args[1]
              h_ == last.args[2]
              s_ == last.args[3]
          IN /\ b.live /\ b.w = w_ /\ b.h = h_
             /\ (s_ <= 0) => b.stride = w_
             /\ (s_ > 0) => b.stride = s_
    /\ last.op = "New" =>
          LET b == bufs[last.dst]
          IN /\ b.ownData
             /\ b.data \in HeapStores
             /\ stores[b.data].alloc
             /\ Len(stores[b.data].mem) = b.stride * b.h
             /\ events = << <<"new", b.data>> >>
    /\ last.op = "Wrap" =>
          LET b == bufs[last.dst]
          IN /\ ~b.ownData
             /\ b.data = last.args[4]
             /\ events = << >>

\* The owning constructor was just called with a stride argument of 0.
CtorStrideWitness ==
    /\ last.op = "New"
    /\ last.args[1] > 0 /\ last.args[2] > 0
    /\ last.args[3] = 0
    /\ bufs[last.dst].stride = last.args[1]

\* The owning constructor was just called with a positive stride other than w.
CtorGivenStrideWitness ==
    /\ last.op = "New"
    /\ last.args[3] > last.args[1]
    /\ bufs[last.dst].stride = last.args[3]

\* C7: for an object with stride >= w, setConst(v) leaves v in every pixel
\* (x, y) with 0 <= x < w and 0 <= y < h, and leaves the elements of the
\* padding columns w <= x < stride as they were.
SetConstFills ==
    [][(last'.op = "SetConst" /\ bufs[last'.dst].stride >= bufs[last'.dst].w) =>
        LET b == bufs[last'.dst]
            val == last'.args[1]
        IN \A x \in 0..(b.stride - 1), y \in 0..(b.h - 1) :
              LET k == x + y * b.stride + 1
              IN IF x < b.w
                 THEN stores'[b.data].mem[k] = val
                 ELSE stores'[b.data].mem[k] = stores[b.data].mem[k]]_vars

\* setConst(v) was just called on an object that has a padding element other than v.
SetConstWitness ==
    /\ last.op = "SetConst"
    /\ LET b == bufs[last.dst]
       IN /\ b.stride > b.w
          /\ \E y \in 0..(b.h - 1) : stores[b.data].mem[b.w + y * b.stride + 1] # last.args[1]
          /\ stores[b.data].mem[1] = last.args[1]

\* C8: setPixel4(u, v, value), when the 2 x 2 block with top-left pixel
\* (floor(u), floor(v)) lies inside the image, leaves value in the four
\* pixels of that block and every other element as it was.
SetPixel4Block ==
    [][last'.op = "SetPixel4" =>
        LET b == bufs[last'.dst]
            iu == last'.args[1] \div Den
            iv == last'.args[2] \div Den
            val == last'.args[3]
            block == {iu + iv * b.stride, (iu + 1) + iv * b.stride,
                      iu + (iv + 1) * b.stride, (iu + 1) + (iv + 1) * b.stride}
        IN (0 <= iu /\ iu + 1 < b.w /\ 0 <= iv /\ iv + 1 < b.h) =>
              \A k \in 0..(Len(stores[b.data].mem) - 1) :
                 stores'[b.data].mem[k + 1] =
                    IF k \in block THEN val ELSE stores[b.data].mem[k + 1]]_vars

\* setPixel4 was just called with fractional coordinates of a block inside the image.
SetPixel4Witness ==
    /\ last.op = "SetPixel4"
    /\ last.args[1] % Den # 0
    /\ last.args[2] % Den # 0
    /\ LET b == bufs[last.dst]
           iu == last.args[1] \div Den
           iv == last.args[2] \div Den
       IN /\ 0 <= iu /\ iu + 1 < b.w /\ 0 <= iv /\ iv + 1 < b.h
          /\ \E k \in 1..Len(stores[b.data].mem) : stores[b.data].mem[k] # last.args[3]

Abs(n) == IF n < 0 THEN -n ELSE n

\* The centre of the ring is at least 3 pixels from every edge of the image.
RingInside(b, u, v) == 3 <= u /\ u + 3 < b.w /\ 3 <= v /\ v + 3 < b.h

\* The cells setPixelCirc is said to write, as offsets from the centre.
RingOffsets ==
    UNION {{<<3, i>>, <<-3, i>>, <<2, i>>, <<-2, i>>,
            <<i, -3>>, <<i, 3>>, <<i, -2>>, <<i, 2>>} : i \in -3..3}

\* setPixelCirc writes the cells of RingOffsets and no other; the centre and
\* the eight cells around it are as they were.
RingCellsStep ==
    (last'.op = "SetPixelCirc"
       /\ RingInside(bufs[last'.dst], last'.args[1], last'.args[2])) =>
        LET b == bufs[last'.dst]
            u == last'.args[1]
            v == last'.args[2]
            val == last'.args[3]
        IN \A x \in 0..(b.w - 1), y \in 0..(b.h - 1) :
              LET k == x + y * b.stride + 1
              IN IF <<x - u, y - v>> \in RingOffsets
                 THEN stores'[b.data].mem[k] = val
                 ELSE stores'[b.data].mem[k] = stores[b.data].mem[k]

\* The written cells form a diamond of radius 3: none lies further than 3
\* from the centre, counting steps along rows and columns.
RingIsDiamondStep ==
    (last'.op = "SetPixelCirc"
       /\ RingInside(bufs[last'.dst], last'.args[1], last'.args[2])) =>
        LET b == bufs[last'.dst]
            u == last'.args[1]
            v == last'.args[2]
        IN \A x \in 0..(b.w - 1), y \in 0..(b.h - 1) :
              LET k == x + y * b.stride + 1
              IN stores'[b.data].mem[k] # stores[b.data].mem[k] =>
                    Abs(x - u) + Abs(y - v) <= 3

\* C9: setPixelCirc(u, v, value), for a centre at least 3 cells from every
\* edge, writes exactly the cells (u+-3, v+i), (u+-2, v+i), (u+i, v+-3),
\* (u+i, v+-2) for i in -3..3; the written set is a diamond-shaped outline of
\* radius 3 around the centre, and the centre and the cells next to it keep
\* their values.
SetPixelCircDiamond == [][RingCellsStep /\ RingIsDiamondStep]_vars

\* What holds of the code: the written cells are the 7 x 7 square around the
\* centre without its inner 3 x 3 square, a square frame two cells thick.
SetPixelCircFrame ==
    [][/\ RingCellsStep
       /\ RingOffsets = {o \in (-3..3) \X (-3..3) : Abs(o[1]) >= 2 \/ Abs(o[2]) >= 2}]_vars

\* setPixelCirc was just called well inside an image that held another value.
SetPixelCircWitness ==
    /\ last.op = "SetPixelCirc"
    /\ RingInside(bufs[last.dst], last.args[1], last.args[2])
    /\ LET b == bufs[last.dst]
       IN stores[b.data].mem[last.args[1] + last.args[2] * b.stride + 1] # last.args[3]

Owners(p) == {b \in Bufs : Owning(bufs[b]) /\ bufs[b].data = p}

\* C10: no array made by new T[] is owned by two live objects; no array is
\* released twice; an array is allocated exactly while one live object owns
\* it, so every array has been released once all objects are destroyed.
ExclusiveOwnership ==
    /\ \A a \in Bufs, b \in Bufs :
          (a # b /\ Owning(bufs[a]) /\ Owning(bufs[b])) => bufs[a].data # bufs[b].data
    /\ ~fault
    /\ \A p \in HeapStores : stores[p].alloc <=> Cardinality(Owners(p)) = 1
    /\ \A b \in Bufs : Owning(bufs[b]) => bufs[b].data \in HeapStores
    /\ NoneLive => \A p \in HeapStores : ~stores[p].alloc

\* The object of the last slot, an owning one, was just destroyed and none is left.
OwnershipWitness ==
    /\ last.op = "Destroy"
    /\ last.args[1] \in HeapStores
    /\ NoneLive
    /\ last.dst = NumBufs
====
